---- MODULE Spec2Model ----
(***************************************************************************)
(* The Blue Robotics 'Ping' binary message protocol: the PingMessage codec *)
(* (pack_msg_data / unpack_msg_data / checksum) and the PingParser         *)
(* byte-at-a-time framer of src/brping/pingmessage.py.                     *)
(*                                                                         *)
(* Python objects are records.  A call that can raise returns a record     *)
(* with a field exc: "" when the call returned, the exception class name   *)
(* when it raised; the object state at the moment of the raise is kept.    *)
(***************************************************************************)
EXTENDS Integers, Sequences, FiniteSets, TLC

(***************************************************************************)
(* Message ids, pingmessage.py lines 24-54.                                *)
(***************************************************************************)
PING1D_ACK == 1
PING1D_ASCII_TEXT == 3
PING1D_CONTINUOUS_START == 1400
PING1D_CONTINUOUS_STOP == 1401
PING1D_DEVICE_ID == 1201
PING1D_DISTANCE == 1212
PING1D_DISTANCE_SIMPLE == 1211
PING1D_FIRMWARE_VERSION == 1200
PING1D_GAIN_INDEX == 1207
PING1D_GENERAL_INFO == 1210
PING1D_GOTO_BOOTLOADER == 1100
PING1D_MODE_AUTO == 1205
PING1D_NACK == 2
PING1D_PCB_TEMPERATURE == 1214
PING1D_PING_ENABLE == 1215
PING1D_PING_INTERVAL == 1206
PING1D_PROCESSOR_TEMPERATURE == 1213
PING1D_PROFILE == 1300
PING1D_PROTOCOL_VERSION == 5
PING1D_PULSE_DURATION == 1208
PING1D_RANGE == 1204
PING1D_SET_DEVICE_ID == 1000
PING1D_SET_GAIN_INDEX == 1005
PING1D_SET_MODE_AUTO == 1003
PING1D_SET_PING_ENABLE == 1006
PING1D_SET_PING_INTERVAL == 1004
PING1D_SET_RANGE == 1001
PING1D_SET_SPEED_OF_SOUND == 1002
PING1D_SPEED_OF_SOUND == 1203
PING1D_UNDEFINED == 0
PING1D_VOLTAGE_5 == 1202

\* The schema table, pingmessage.py lines 59-363.  A struct format string is the
\* sequence of its one-letter codes.
payload_dict ==
    (PING1D_ACK :> [name |-> "ack", format |-> <<"H">>,
        field_names |-> <<"acked_id">>,
        payload_length |-> 2]) @@
    (PING1D_ASCII_TEXT :> [name |-> "ascii_text", format |-> <<>>,
        field_names |-> <<"ascii_message">>,
        payload_length |-> 0]) @@
    (PING1D_CONTINUOUS_START :> [name |-> "continuous_start", format |-> <<"H">>,
        field_names |-> <<"id">>,
        payload_length |-> 2]) @@
    (PING1D_CONTINUOUS_STOP :> [name |-> "continuous_stop", format |-> <<"H">>,
        field_names |-> <<"id">>,
        payload_length |-> 2]) @@
    (PING1D_DEVICE_ID :> [name |-> "device_id", format |-> <<"B">>,
        field_names |-> <<"device_id">>,
        payload_length |-> 1]) @@
    (PING1D_DISTANCE :> [name |-> "distance", format |-> <<"I", "H", "H", "I", "I", "I", "I">>,
        field_names |-> <<"distance", "confidence", "pulse_duration", "ping_number", "scan_start", "scan_length", "gain_index">>,
        payload_length |-> 24]) @@
    (PING1D_DISTANCE_SIMPLE :> [name |-> "distance_simple", format |-> <<"I", "B">>,
        field_names |-> <<"distance", "confidence">>,
        payload_length |-> 5]) @@
    (PING1D_FIRMWARE_VERSION :> [name |-> "firmware_version", format |-> <<"B", "B", "H", "H">>,
        field_names |-> <<"device_type", "device_model", "firmware_version_major", "firmware_version_minor">>,
        payload_length |-> 6]) @@
    (PING1D_GAIN_INDEX :> [name |-> "gain_index", format |-> <<"I">>,
        field_names |-> <<"gain_index">>,
        payload_length |-> 4]) @@
    (PING1D_GENERAL_INFO :> [name |-> "general_info", format |-> <<"H", "H", "H", "H", "B", "B">>,
        field_names |-> <<"firmware_version_major", "firmware_version_minor", "voltage_5", "ping_interval", "gain_index", "mode_auto">>,
        payload_length |-> 10]) @@
    (PING1D_GOTO_BOOTLOADER :> [name |-> "goto_bootloader", format |-> <<>>,
        field_names |-> <<>>,
        payload_length |-> 0]) @@
    (PING1D_MODE_AUTO :> [name |-> "mode_auto", format |-> <<"B">>,
        field_names |-> <<"mode_auto">>,
        payload_length |-> 1]) @@
    (PING1D_NACK :> [name |-> "nack", format |-> <<"H">>,
        field_names |-> <<"nacked_id", "nack_message">>,
        payload_length |-> 2]) @@
    (PING1D_PCB_TEMPERATURE :> [name |-> "pcb_temperature", format |-> <<"H">>,
        field_names |-> <<"pcb_temperature">>,
        payload_length |-> 2]) @@
    (PING1D_PING_ENABLE :> [name |-> "ping_enable", format |-> <<"B">>,
        field_names |-> <<"ping_enabled">>,
        payload_length |-> 1]) @@
    (PING1D_PING_INTERVAL :> [name |-> "ping_interval", format |-> <<"H">>,
        field_names |-> <<"ping_interval">>,
        payload_length |-> 2]) @@
    (PING1D_PROCESSOR_TEMPERATURE :> [name |-> "processor_temperature", format |-> <<"H">>,
        field_names |-> <<"processor_temperature">>,
        payload_length |-> 2]) @@
    (PING1D_PROFILE :> [name |-> "profile", format |-> <<"I", "H", "H", "I", "I", "I", "I", "H">>,
        field_names |-> <<"distance", "confidence", "pulse_duration", "ping_number", "scan_start", "scan_length", "gain_index", "profile_data_length", "profile_data">>,
        payload_length |-> 26]) @@
    (PING1D_PROTOCOL_VERSION :> [name |-> "protocol_version", format |-> <<"I">>,
        field_names |-> <<"protocol_version">>,
        payload_length |-> 4]) @@
    (PING1D_PULSE_DURATION :> [name |-> "pulse_duration", format |-> <<"H">>,
        field_names |-> <<"pulse_duration">>,
        payload_length |-> 2]) @@
    (PING1D_RANGE :> [name |-> "range", format |-> <<"I", "I">>,
        field_names |-> <<"scan_start", "scan_length">>,
        payload_length |-> 8]) @@
    (PING1D_SET_DEVICE_ID :> [name |-> "set_device_id", format |-> <<"B">>,
        field_names |-> <<"device_id">>,
        payload_length |-> 1]) @@
    (PING1D_SET_GAIN_INDEX :> [name |-> "set_gain_index", format |-> <<"B">>,
        field_names |-> <<"gain_index">>,
        payload_length |-> 1]) @@
    (PING1D_SET_MODE_AUTO :> [name |-> "set_mode_auto", format |-> <<"B">>,
        field_names |-> <<"mode_auto">>,
        payload_length |-> 1]) @@
    (PING1D_SET_PING_ENABLE :> [name |-> "set_ping_enable", format |-> <<"B">>,
        field_names |-> <<"ping_enabled">>,
        payload_length |-> 1]) @@
    (PING1D_SET_PING_INTERVAL :> [name |-> "set_ping_interval", format |-> <<"H">>,
        field_names |-> <<"ping_interval">>,
        payload_length |-> 2]) @@
    (PING1D_SET_RANGE :> [name |-> "set_range", format |-> <<"I", "I">>,
        field_names |-> <<"scan_start", "scan_length">>,
        payload_length |-> 8]) @@
    (PING1D_SET_SPEED_OF_SOUND :> [name |-> "set_speed_of_sound", format |-> <<"I">>,
        field_names |-> <<"speed_of_sound">>,
        payload_length |-> 4]) @@
    (PING1D_SPEED_OF_SOUND :> [name |-> "speed_of_sound", format |-> <<"I">>,
        field_names |-> <<"speed_of_sound">>,
        payload_length |-> 4]) @@
    (PING1D_UNDEFINED :> [name |-> "undefined", format |-> <<>>,
        field_names |-> <<>>,
        payload_length |-> 0]) @@
    (PING1D_VOLTAGE_5 :> [name |-> "voltage_5", format |-> <<"H">>,
        field_names |-> <<"voltage_5">>,
        payload_length |-> 2])

asciiMsgs == {PING1D_NACK, PING1D_ASCII_TEXT}

variable_msgs == {PING1D_PROFILE}

\* Python's None, for request_id.
None == -1

\* msg_data = None: a value that is no byte sequence.
NoneData == <<None>>

\* header start byte 1, ord("B")
start_1 == 66

\* header start byte 2, ord("R")
start_2 == 82

header_format == <<"B", "B", "H", "H", "B", "B">>

checksum_format == <<"H">>

header_field_names ==
    <<"start_1", "start_2", "payload_length", "message_id", "src_device_id", "dst_device_id">>

headerLength == 8

checksumLength == 2

(***************************************************************************)
(* The struct module, little-endian ("<": standard sizes, no padding).     *)
(* A format is [codes, s]: the one-letter integer codes, then one trailing *)
(* "<s>s" item when s > 0.  Unsigned 32-bit values are kept below 2^31 by  *)
(* the inputs (every "I" field has a high byte below 128).                 *)
(***************************************************************************)
Min(a, b) == IF a < b THEN a ELSE b

\* Python slice seq[a:b], 0-based, clamped to the length of seq.
Slice(seq, a, b) == SubSeq(seq, a + 1, Min(b, Len(seq)))

Width(c) == CASE c = "B" -> 1 [] c = "H" -> 2 [] c = "I" -> 4

RECURSIVE SumWidths(_)
SumWidths(codes) ==
    IF codes = <<>> THEN 0 ELSE Width(Head(codes)) + SumWidths(Tail(codes))

calcsize(fmt) == SumWidths(fmt.codes) + fmt.s

RECURSIVE le_int(_)
le_int(bs) == IF bs = <<>> THEN 0 ELSE Head(bs) + 256 * le_int(Tail(bs))

RECURSIVE le_bytes(_, _)
le_bytes(v, w) == IF w = 0 THEN <<>> ELSE <<v % 256>> \o le_bytes(v \div 256, w - 1)

RECURSIVE unpack_items(_, _)
unpack_items(codes, data) ==
    IF codes = <<>> THEN <<>>
    ELSE LET w == Width(Head(codes))
         IN  <<le_int(SubSeq(data, 1, w))>>
             \o unpack_items(Tail(codes), SubSeq(data, w + 1, Len(data)))

\* struct.unpack(fmt, data): raises struct.error unless len(data) = calcsize(fmt).
struct_unpack(fmt, data) ==
    IF Len(data) # calcsize(fmt)
    THEN [exc |-> "struct.error", values |-> <<>>]
    ELSE LET fixed == SumWidths(fmt.codes)
         IN  [exc |-> "",
              values |-> unpack_items(fmt.codes, SubSeq(data, 1, fixed))
                         \o (IF fmt.s > 0 THEN <<SubSeq(data, fixed + 1, Len(data))>>
                             ELSE <<>>)]

\* An integer code accepts 0 .. 256^width - 1.
InRange(c, v) ==
    CASE c = "B" -> v >= 0 /\ v <= 255
      [] c = "H" -> v >= 0 /\ v <= 65535
      [] c = "I" -> v >= 0

RECURSIVE pack_items(_, _)
pack_items(codes, values) ==
    IF codes = <<>> THEN <<>>
    ELSE le_bytes(Head(values), Width(Head(codes)))
         \o pack_items(Tail(codes), Tail(values))

\* An "s" item is cut or zero-padded to its declared size.
pack_s(v, n) == [i \in 1..n |-> IF i <= Len(v) THEN v[i] ELSE 0]

\* struct.pack(fmt, *values): raises struct.error on a wrong number of
\* values or an integer out of the range of its code.
struct_pack(fmt, values) ==
    LET n == Len(fmt.codes)
        nitems == n + (IF fmt.s > 0 THEN 1 ELSE 0)
    IN  IF Len(values) # nitems
        THEN [exc |-> "struct.error", bytes |-> <<>>]
        ELSE IF \E i \in 1..n : ~InRange(fmt.codes[i], values[i])
        THEN [exc |-> "struct.error", bytes |-> <<>>]
        ELSE [exc |-> "",
              bytes |-> pack_items(fmt.codes, SubSeq(values, 1, n))
                        \o (IF fmt.s > 0 THEN pack_s(values[n + 1], fmt.s) ELSE <<>>)]

(***************************************************************************)
(* class PingMessage.  attrs holds the attributes created by setattr       *)
(* (start_1, start_2 and the payload fields); start_1 and start_2 exist    *)
(* from the start as class attributes.                                     *)
(***************************************************************************)
Known(id) == id \in DOMAIN payload_dict

HasAttr(self, attr) ==
    \/ attr \in {"payload_length", "message_id", "src_device_id", "dst_device_id"}
    \/ attr \in DOMAIN self.attrs

GetAttr(self, attr) ==
    CASE attr = "payload_length" -> self.payload_length
      [] attr = "message_id" -> self.message_id
      [] attr = "src_device_id" -> self.src_device_id
      [] attr = "dst_device_id" -> self.dst_device_id
      [] OTHER -> self.attrs[attr]

SetAttr(self, attr, v) ==
    CASE attr = "payload_length" -> [self EXCEPT !.payload_length = v]
      [] attr = "message_id" -> [self EXCEPT !.message_id = v]
      [] attr = "src_device_id" -> [self EXCEPT !.src_device_id = v]
      [] attr = "dst_device_id" -> [self EXCEPT !.dst_device_id = v]
      [] OTHER -> [self EXCEPT !.attrs = (attr :> v) @@ self.attrs]

\* for i, attr in enumerate(names): setattr(self, attr, values[i])
RECURSIVE SetAttrs(_, _, _)
SetAttrs(self, names, values) ==
    IF names = <<>> THEN self
    ELSE SetAttrs(SetAttr(self, Head(names), Head(values)), Tail(names), Tail(values))

\* get_payload_format without the variable-length "<n>s" item.
get_payload_format_static_only(self) ==
    [codes |-> payload_dict[self.message_id].format, s |-> 0]

\* get_payload_format; raises KeyError for an id without a schema entry
\* (callers test Known first).
get_payload_format(self) ==
    IF self.message_id \in variable_msgs \/ self.message_id \in asciiMsgs
    THEN LET var_length == self.payload_length - payload_dict[self.message_id].payload_length
         IN  IF var_length <= 0
             THEN [codes |-> <<>>, s |-> 0]
             ELSE [codes |-> payload_dict[self.message_id].format, s |-> var_length]
    ELSE [codes |-> payload_dict[self.message_id].format, s |-> 0]

\* checksum += byte over bs[lo..hi], summed by halves to keep the
\* evaluation shallow.
RECURSIVE SumRange(_, _, _)
SumRange(bs, lo, hi) ==
    IF lo > hi THEN 0
    ELSE IF lo = hi THEN bs[lo]
    ELSE LET mid == (lo + hi) \div 2
         IN  SumRange(bs, lo, mid) + SumRange(bs, mid + 1, hi)

SumBytes(bs) == SumRange(bs, 1, Len(bs))

\* calculate_checksum over the whole buffer, checksum bytes included.
calculate_checksum_whole_buffer(self) == SumBytes(self.msg_data)

calculate_checksum(self) ==
    SumBytes(Slice(self.msg_data, 0, headerLength + self.payload_length))

\* update_checksum that leaves the checksum attribute as it was.
update_checksum_stale(self) == self

update_checksum(self) == [self EXCEPT !.checksum = calculate_checksum(self)]

verify_checksum(self) == self.checksum = calculate_checksum(self)

\* unpack_msg_data.  unpack_error: the payload struct.unpack raised and the
\* "error unpacking payload" report was printed, leaving the payload
\* fields unset.  For an id without a schema entry the KeyError of
\* get_payload_format is caught, and raised again by the report (line 501).
unpack_msg_data(self, msg_data) ==
    LET m1 == [self EXCEPT !.msg_data = msg_data]
        header == struct_unpack([codes |-> header_format, s |-> 0],
                                Slice(msg_data, 0, headerLength))
    IN  IF header.exc # ""
        THEN [exc |-> header.exc, m |-> m1, unpack_error |-> FALSE]
        ELSE
        LET m2 == SetAttrs(m1, header_field_names, header.values)
            len == m2.payload_length
            names == payload_dict[m2.message_id].field_names
            payload == struct_unpack(get_payload_format(m2),
                           Slice(msg_data, headerLength, headerLength + len))
            checksum == struct_unpack([codes |-> checksum_format, s |-> 0],
                           Slice(msg_data, headerLength + len,
                                 headerLength + len + checksumLength))
            Finish(m3, err) ==
                IF checksum.exc # ""
                THEN [exc |-> checksum.exc, m |-> m3, unpack_error |-> err]
                ELSE [exc |-> "", m |-> [m3 EXCEPT !.checksum = checksum.values[1]],
                      unpack_error |-> err]
        IN  IF len > 0
            THEN IF ~Known(m2.message_id)
                 THEN [exc |-> "KeyError", m |-> m2, unpack_error |-> TRUE]
                 ELSE IF payload.exc # ""
                 THEN Finish(m2, TRUE)
                 ELSE IF Len(payload.values) < Len(names)
                 THEN [exc |-> "IndexError", m |-> m2, unpack_error |-> FALSE]
                 ELSE Finish(SetAttrs(m2, names, payload.values), FALSE)
            ELSE Finish(m2, FALSE)

\* PingMessage.__init__(msg_id, msg_data); msg_data = NoneData when omitted.
\* msg_id is a registered id in every call of the model.
PingMessage(msg_id, msg_data) ==
    LET m0 == [message_id |-> msg_id,
               request_id |-> None,
               payload_length |-> payload_dict[msg_id].payload_length,
               dst_device_id |-> 0,
               src_device_id |-> 0,
               checksum |-> 0,
               msg_data |-> NoneData,
               name |-> "",
               payload_format |-> <<>>,
               payload_field_names |-> <<>>,
               attrs |-> ("start_1" :> start_1) @@ ("start_2" :> start_2)]
        u == IF msg_data # NoneData
             THEN unpack_msg_data(m0, msg_data)
             ELSE [exc |-> "", m |-> m0, unpack_error |-> FALSE]
    IN  IF u.exc # "" THEN u
        ELSE IF ~Known(u.m.message_id)
        THEN [exc |-> "KeyError", m |-> u.m, unpack_error |-> u.unpack_error]
        ELSE [exc |-> "",
              m |-> [u.m EXCEPT !.name = payload_dict[u.m.message_id].name,
                                !.payload_format = payload_dict[msg_id].format,
                                !.payload_field_names = payload_dict[msg_id].field_names],
              unpack_error |-> u.unpack_error]

\* update_payload_length
update_payload_length(self) ==
    IF self.message_id \in variable_msgs \/ self.message_id \in asciiMsgs
    THEN IF self.payload_field_names = <<>>
         THEN [exc |-> "IndexError", m |-> self]
         ELSE LET last == self.payload_field_names[Len(self.payload_field_names)]
              IN  IF ~HasAttr(self, last)
                  THEN [exc |-> "AttributeError", m |-> self]
                  ELSE [exc |-> "",
                        m |-> [self EXCEPT !.payload_length =
                                 payload_dict[self.message_id].payload_length
                                 + Len(GetAttr(self, last))]]
    ELSE IF ~Known(self.message_id)
         THEN [exc |-> "KeyError", m |-> self]
         ELSE [exc |-> "",
               m |-> [self EXCEPT !.payload_length = payload_dict[self.message_id].payload_length]]

\* pack_msg_data: the message after the call, and the exception if it raised.
pack_msg_data(self) ==
    LET u == update_payload_length(self)
        fmt == get_payload_format(u.m)
        msg_format == [codes |-> header_format \o fmt.codes, s |-> fmt.s]
        attrs == header_field_names \o payload_dict[u.m.message_id].field_names
        missing == \E i \in 1..Len(attrs) : ~HasAttr(u.m, attrs[i])
        values == [i \in 1..Len(attrs) |->
                     IF attrs[i] = "message_id" /\ u.m.request_id # None
                     THEN u.m.request_id
                     ELSE GetAttr(u.m, attrs[i])]
        packed == struct_pack(msg_format, values)
        m1 == update_checksum([u.m EXCEPT !.msg_data = packed.bytes])
        tail == struct_pack([codes |-> checksum_format, s |-> 0], <<m1.checksum>>)
    IN  IF u.exc # "" THEN u
        ELSE IF missing THEN [exc |-> "AttributeError", m |-> u.m]
        ELSE IF packed.exc # "" THEN [exc |-> packed.exc, m |-> u.m]
        ELSE IF tail.exc # "" THEN [exc |-> tail.exc, m |-> m1]
        ELSE [exc |-> "", m |-> [m1 EXCEPT !.msg_data = m1.msg_data \o tail.bytes]]

(***************************************************************************)
(* class PingParser                                                        *)
(***************************************************************************)
NEW_MESSAGE == 0

WAIT_START == 1

WAIT_HEADER == 2

WAIT_LENGTH_L == 3

WAIT_LENGTH_H == 4

WAIT_MSG_ID_L == 5

WAIT_MSG_ID_H == 6

WAIT_SRC_ID == 7

WAIT_DST_ID == 8

WAIT_PAYLOAD == 9

WAIT_CHECKSUM_L == 10

WAIT_CHECKSUM_H == 11

\* rx_msg = None
NoneMsg == [none |-> TRUE]

\* PingParser.__init__.  buf_is_rx_data tells whether self.buf and
\* self.rx_msg.msg_data are one bytearray object: unpack_msg_data keeps the
\* bytearray it is given (self.msg_data = msg_data), it does not copy it.
PingParser ==
    [buf |-> <<>>,
     buf_is_rx_data |-> FALSE,
     state |-> WAIT_START,
     payload_length |-> 0,
     message_id |-> 0,
     errors |-> 0,
     parsed |-> 0,
     rx_msg |-> NoneMsg]

\* self.buf.append(msg_byte): the byte is appended to the bytearray object,
\* and shows in rx_msg.msg_data when that is the same object.
buf_append(self, msg_byte) ==
    [self EXCEPT !.buf = Append(self.buf, msg_byte),
                 !.rx_msg = IF self.buf_is_rx_data
                            THEN [@ EXCEPT !.msg_data = Append(@, msg_byte)]
                            ELSE @]

\* self.state += 1
advance(self) == [self EXCEPT !.state = self.state + 1]

\* return self.state
return_state(self) == [exc |-> "", self |-> self, ret |-> self.state]

\* The branches of parse_byte, one per parser state.  Each gives the parser
\* after the call, the value returned, and the exception if the call raised
\* (then nothing is returned: ret = None).
\* wait_start without the test for 'B': any byte starts a frame.
wait_start_any_byte(self, msg_byte) ==
    LET p1 == [self EXCEPT !.buf = <<>>, !.buf_is_rx_data = FALSE]
    IN  return_state(advance(buf_append(p1, msg_byte)))

\* wait_start emptying the bytearray in place instead of making a new one.
wait_start_same_bytearray(self, msg_byte) ==
    LET p1 == [self EXCEPT !.buf = <<>>,
                           !.rx_msg = IF self.buf_is_rx_data
                                      THEN [@ EXCEPT !.msg_data = <<>>]
                                      ELSE @]
    IN  IF msg_byte = start_1
        THEN return_state(advance(buf_append(p1, msg_byte)))
        ELSE return_state(p1)

\* self.buf = bytearray() makes a new object: the bytearray of the frame
\* before stays with rx_msg.
wait_start(self, msg_byte) ==
    LET p1 == [self EXCEPT !.buf = <<>>, !.buf_is_rx_data = FALSE]
    IN  IF msg_byte = start_1
        THEN return_state(advance(buf_append(p1, msg_byte)))
        ELSE return_state(p1)

\* wait_header taking a 'B' that is not followed by 'R' as the start of the
\* next frame.
wait_header_backtrack(self, msg_byte) ==
    IF msg_byte = start_2
    THEN return_state(advance(buf_append(self, msg_byte)))
    ELSE IF msg_byte = start_1
    THEN return_state(self)
    ELSE return_state([self EXCEPT !.state = WAIT_START])

wait_header(self, msg_byte) ==
    IF msg_byte = start_2
    THEN return_state(advance(buf_append(self, msg_byte)))
    ELSE return_state([self EXCEPT !.state = WAIT_START])

wait_length_l(self, msg_byte) ==
    return_state(advance(buf_append([self EXCEPT !.payload_length = msg_byte], msg_byte)))

\* (msg_byte << 8) | low, with low < 256, is msg_byte * 256 + low.
wait_length_h(self, msg_byte) ==
    return_state(advance(buf_append(
        [self EXCEPT !.payload_length = msg_byte * 256 + self.payload_length], msg_byte)))

wait_msg_id_l(self, msg_byte) ==
    return_state(advance(buf_append([self EXCEPT !.message_id = msg_byte], msg_byte)))

wait_msg_id_h(self, msg_byte) ==
    return_state(advance(buf_append(
        [self EXCEPT !.message_id = msg_byte * 256 + self.message_id], msg_byte)))

wait_src_id(self, msg_byte) ==
    return_state(advance(buf_append(self, msg_byte)))

\* wait_dst_id without the test for an empty payload.
wait_dst_id_no_skip(self, msg_byte) ==
    return_state(advance(buf_append(self, msg_byte)))

wait_dst_id(self, msg_byte) ==
    LET p1 == advance(buf_append(self, msg_byte))
    IN  IF p1.payload_length = 0 THEN return_state(advance(p1)) ELSE return_state(p1)

wait_payload(self, msg_byte) ==
    LET p1 == buf_append(self, msg_byte)
        p2 == [p1 EXCEPT !.payload_length = p1.payload_length - 1]
    IN  IF p2.payload_length = 0 THEN return_state(advance(p2)) ELSE return_state(p2)

wait_checksum_l(self, msg_byte) ==
    return_state(advance(buf_append(self, msg_byte)))

\* The end of the WAIT_CHECKSUM_H branch, lines 664-676, for the parser p1
\* after the append and msg, the outcome of PingMessage(msg_data=self.buf),
\* without the reset of state to WAIT_START.
frame_done_no_reset(p1, msg) ==
    IF msg.exc # ""
    THEN [exc |-> msg.exc, self |-> p1, ret |-> None]
    ELSE IF verify_checksum(msg.m)
    THEN [exc |-> "",
          self |-> [p1 EXCEPT !.rx_msg = msg.m,
                              !.buf_is_rx_data = TRUE,
                              !.payload_length = 0,
                              !.message_id = 0,
                              !.parsed = p1.parsed + 1],
          ret |-> NEW_MESSAGE]
    ELSE return_state([p1 EXCEPT !.rx_msg = msg.m,
                                 !.buf_is_rx_data = TRUE,
                                 !.payload_length = 0,
                                 !.message_id = 0,
                                 !.errors = p1.errors + 1])

\* The end of the WAIT_CHECKSUM_H branch, lines 664-676, for the parser p1
\* after the append and msg, the outcome of PingMessage(msg_data=self.buf).
\* When PingMessage raises, rx_msg, state and the accumulators are not
\* assigned: the parser stays as it was after the append.
frame_done(p1, msg) ==
    IF msg.exc # ""
    THEN [exc |-> msg.exc, self |-> p1, ret |-> None]
    ELSE IF verify_checksum(msg.m)
    THEN [exc |-> "",
          self |-> [p1 EXCEPT !.rx_msg = msg.m,
                              !.buf_is_rx_data = TRUE,
                              !.state = WAIT_START,
                              !.payload_length = 0,
                              !.message_id = 0,
                              !.parsed = p1.parsed + 1],
          ret |-> NEW_MESSAGE]
    ELSE return_state([p1 EXCEPT !.rx_msg = msg.m,
                                 !.buf_is_rx_data = TRUE,
                                 !.state = WAIT_START,
                                 !.payload_length = 0,
                                 !.message_id = 0,
                                 !.errors = p1.errors + 1])

wait_checksum_h(self, msg_byte) ==
    frame_done(buf_append(self, msg_byte),
               PingMessage(PING1D_UNDEFINED, Append(self.buf, msg_byte)))

\* parse_byte(msg_byte); bytes are integers, so the ord() conversion of a
\* one-character string argument is not modelled.
parse_byte(self, msg_byte) ==
    CASE self.state = WAIT_START -> wait_start(self, msg_byte)
      [] self.state = WAIT_HEADER -> wait_header(self, msg_byte)
      [] self.state = WAIT_LENGTH_L -> wait_length_l(self, msg_byte)
      [] self.state = WAIT_LENGTH_H -> wait_length_h(self, msg_byte)
      [] self.state = WAIT_MSG_ID_L -> wait_msg_id_l(self, msg_byte)
      [] self.state = WAIT_MSG_ID_H -> wait_msg_id_h(self, msg_byte)
      [] self.state = WAIT_SRC_ID -> wait_src_id(self, msg_byte)
      [] self.state = WAIT_DST_ID -> wait_dst_id(self, msg_byte)
      [] self.state = WAIT_PAYLOAD -> wait_payload(self, msg_byte)
      [] self.state = WAIT_CHECKSUM_L -> wait_checksum_l(self, msg_byte)
      [] self.state = WAIT_CHECKSUM_H -> wait_checksum_h(self, msg_byte)

(***************************************************************************)
(* Input byte streams.  A stream is a run of segments: the hand-written    *)
(* verification buffers of the source, frames laid out in the wire format  *)
(* (header, payload, 16-bit sum of the preceding bytes), damaged frames    *)
(* and stray bytes.                                                        *)
(***************************************************************************)
test_voltage_5_buf == <<66, 82, 2, 0, 178, 4, 5, 6, 1, 1, 89, 1>>

test_nack_buf == <<66, 82, 6, 0, 3, 0, 5, 6, 104, 101, 108, 108, 111, 0, 188, 2>>

test_profile_buf ==
    <<66, 82, 30, 0, 20, 5, 5, 6,
      104, 101, 108, 108, 111, 0, 0,
      104, 101, 108, 108, 111, 0, 0,
      104, 101, 108, 108, 111, 0, 0,
      104, 101, 108, 108, 111,
      1, 2, 99, 100,
      178, 10>>

\* Number of 255-valued profile_data bytes of the long frame: its byte sum
\* exceeds 65535.
LongData == 260

Header(len, id, src_id, dst_id) ==
    <<start_1, start_2>> \o le_bytes(len, 2) \o le_bytes(id, 2) \o <<src_id, dst_id>>

\* A frame in the wire format, its checksum off by delta.
WireFrame(id, src_id, dst_id, payload, delta) ==
    LET body == Header(Len(payload), id, src_id, dst_id) \o payload
    IN  body \o le_bytes((SumBytes(body) + delta) % 65536, 2)

ProfileFixed == <<1, 0, 0, 0, 2, 0, 3, 0, 4, 0, 0, 0, 5, 0, 0, 0,
                  6, 0, 0, 0, 7, 0, 0, 0, 4, 1>>

Segments ==
    << test_voltage_5_buf,
       test_nack_buf,
       test_profile_buf,
       WireFrame(PING1D_VOLTAGE_5, 1, 2, <<9, 9>>, 1),
       WireFrame(4, 0, 0, <<>>, 0),
       WireFrame(4, 0, 0, <<1, 2>>, 0),
       WireFrame(PING1D_NACK, 0, 0, <<7, 0>>, 0),
       WireFrame(PING1D_NACK, 0, 0, <<5, 0, 97, 98>>, 0),
       WireFrame(PING1D_ASCII_TEXT, 0, 0, <<>>, 0),
       WireFrame(PING1D_PROFILE, 0, 0, ProfileFixed, 0),
       WireFrame(PING1D_PROFILE, 0, 0, ProfileFixed \o [i \in 1..LongData |-> 255], 0),
       WireFrame(PING1D_PROFILE, 0, 0, <<>>, 0),
       WireFrame(PING1D_VOLTAGE_5, 0, 0, <<1, 1, 1>>, 0),
       WireFrame(PING1D_DISTANCE_SIMPLE, 3, 4, <<16, 39, 0, 0, 100>>, 0),
       WireFrame(PING1D_GOTO_BOOTLOADER, 0, 0, <<>>, 0),
       SubSeq(test_voltage_5_buf, 1, 9),
       <<0>>,
       <<66>>,
       <<82>>,
       <<255>> >>

SegLen(s) == IF s = 0 THEN 0 ELSE Len(Segments[s])

\* The segments __main__ feeds to its parser, lines 707-720, in its order.
MainBuffers ==
    << CHOOSE s \in 1..Len(Segments) : Segments[s] = test_voltage_5_buf,
       CHOOSE s \in 1..Len(Segments) : Segments[s] = test_nack_buf,
       CHOOSE s \in 1..Len(Segments) : Segments[s] = test_profile_buf >>

\* Segments fed to one parser.
MaxSegs == 3

(***************************************************************************)
(* Field values a caller assigns before encoding.                          *)
(***************************************************************************)
\* Sample values of an integer field, by struct code.
IntValues(c) ==
    CASE c = "B" -> {0, 7, 255}
      [] c = "H" -> {0, 258, 65535}
      [] c = "I" -> {0, 16909060, 2147483647}

\* Sample values of a variable-length trailing field: empty, short, and long
\* enough for the byte sum of the frame to exceed 65535.
TrailingValues == {<<>>, <<97, 98>>, [i \in 1..LongData |-> 255]}

IsVariable(id) == id \in variable_msgs \/ id \in asciiMsgs

\* The values field number i of message type id can take.
FieldValues(id, i) ==
    IF i <= Len(payload_dict[id].format)
    THEN IntValues(payload_dict[id].format[i])
    ELSE TrailingValues

\* An assignment of every payload field: integer fields take the k-th sample
\* value of their code, the trailing field takes t.
Sample(c, k) ==
    CASE c = "B" -> <<0, 7, 255>>[k]
      [] c = "H" -> <<0, 258, 65535>>[k]
      [] c = "I" -> <<0, 16909060, 2147483647>>[k]

Assignment(id, k, t) ==
    [i \in 1..Len(payload_dict[id].field_names) |->
       IF i <= Len(payload_dict[id].format)
       THEN Sample(payload_dict[id].format[i], k)
       ELSE t]

\* Field assignments made one at a time on one message.
MaxSets == 2

\* Request ids of the request loop, pingmessage.py lines 739-753.
RequestIds == {PING1D_PROFILE, PING1D_VOLTAGE_5, PING1D_DISTANCE_SIMPLE}

VARIABLES
    p,          \* the PingParser
    ret,        \* value returned by the last parse_byte call (None: none)
    exc,        \* exception raised by the last parse_byte call ("": none)
    pre,        \* parser state (p.state) before the last call
    seg,        \* segment being fed (0: none yet)
    pos,        \* bytes of seg fed so far
    nseg,       \* segments begun
    state0,     \* p.state when seg began
    prev_seg,   \* the segment before seg
    prev_state0, \* p.state when prev_seg began
    nframes,    \* parse_byte calls made in WAIT_CHECKSUM_H
    last_new,   \* p.rx_msg as of the last call that returned NEW_MESSAGE
    main_order, \* the segments begun so far are the hand-written buffers of
                \* __main__, in its order
    m,          \* a PingMessage a caller builds and encodes
    m_exc,      \* exception raised by the last call on m
    d,          \* a PingMessage decoded from a buffer (NoneMsg: none)
    d_exc,      \* exception raised by the last call that made or packed d
    d_err,      \* the decode printed "error unpacking payload"
    src,        \* the buffer d was decoded from
    op,         \* the last codec operation
    nsets,      \* single field assignments made on m
    parsers,    \* two more PingParser instances, by number
    streams,    \* per instance, the segments chosen for it so far
    fed,        \* per instance, the bytes passed to its parse_byte so far
    returned    \* per instance, what each of these calls returned or raised

parser_vars == <<p, ret, exc, pre, seg, pos, nseg, state0, prev_seg, prev_state0,
                 nframes, last_new, main_order>>

codec_vars == <<m, m_exc, d, d_exc, d_err, src, op, nsets>>

pair_vars == <<parsers, streams, fed, returned>>

vars == <<parser_vars, codec_vars, pair_vars>>

\* The PingParser instances fed side by side.
Instances == {1, 2}

Init ==
    /\ p = PingParser
    /\ ret = None
    /\ exc = ""
    /\ pre = WAIT_START
    /\ seg = 0
    /\ pos = 0
    /\ nseg = 0
    /\ state0 = WAIT_START
    /\ prev_seg = 0
    /\ prev_state0 = WAIT_START
    /\ nframes = 0
    /\ last_new = NoneMsg
    /\ main_order = TRUE
    /\ m = PingMessage(PING1D_UNDEFINED, NoneData).m
    /\ m_exc = ""
    /\ d = NoneMsg
    /\ d_exc = ""
    /\ d_err = FALSE
    /\ src = <<>>
    /\ op = "init"
    /\ nsets = 0
    /\ parsers = [i \in Instances |-> PingParser]
    /\ streams = [i \in Instances |-> <<>>]
    /\ fed = [i \in Instances |-> <<>>]
    /\ returned = [i \in Instances |-> <<>>]

\* The effect of a parse_byte call with outcome r on the parser and on what
\* its caller observes.
Called(r) ==
    /\ p' = r.self
    /\ ret' = r.ret
    /\ exc' = r.exc
    /\ pre' = p.state
    /\ nframes' = IF p.state = WAIT_CHECKSUM_H THEN nframes + 1 ELSE nframes
    /\ last_new' = IF r.ret = NEW_MESSAGE THEN r.self.rx_msg ELSE last_new

\* One call p.parse_byte(Segments[s][i]).
Feed(s, i) ==
    /\ Called(parse_byte(p, Segments[s][i]))
    /\ seg' = s
    /\ pos' = i

\* parse_byte on the next byte of the segment under way.
ParseByte ==
    /\ pos < SegLen(seg)
    /\ Feed(seg, pos + 1)
    /\ UNCHANGED <<nseg, state0, prev_seg, prev_state0, main_order>>
    /\ UNCHANGED codec_vars
    /\ UNCHANGED pair_vars

\* parse_byte on the first byte of a further segment.
ParseFirstByte ==
    /\ pos = SegLen(seg)
    /\ nseg < MaxSegs
    /\ \E s \in 1..Len(Segments) :
         /\ Feed(s, 1)
         /\ nseg' = nseg + 1
         /\ state0' = p.state
         /\ prev_seg' = seg
         /\ prev_state0' = state0
         /\ main_order' = (main_order /\ nseg < Len(MainBuffers) /\ s = MainBuffers[nseg + 1])
    /\ UNCHANGED codec_vars
    /\ UNCHANGED pair_vars

Next == ParseByte \/ ParseFirstByte

\* Byte streams fed to one PingParser.
Spec == Init /\ [][Next]_vars

(***************************************************************************)
(* The codec used directly: build a message, assign its fields, encode it, *)
(* decode a buffer, encode the decoded message again.                      *)
(***************************************************************************)
\* m = PingMessage(msg_id)
Construct ==
    /\ op = "init"
    /\ \E id \in DOMAIN payload_dict :
         m' = PingMessage(id, NoneData).m
    /\ m_exc' = ""
    /\ op' = "construct"
    /\ UNCHANGED <<d, d_exc, d_err, src, nsets>>
    /\ UNCHANGED parser_vars
    /\ UNCHANGED pair_vars

\* Assign every payload field of m, as in "Ex set" and lines 728-729.
SetFields ==
    /\ op = "construct"
    /\ \E k \in 1..3, t \in TrailingValues :
         m' = SetAttrs(m, payload_dict[m.message_id].field_names,
                       Assignment(m.message_id, k, t))
    /\ op' = "set"
    /\ UNCHANGED <<m_exc, d, d_exc, d_err, src, nsets>>
    /\ UNCHANGED parser_vars
    /\ UNCHANGED pair_vars

\* m.<field> = v, one payload field.
SetField ==
    /\ op \in {"construct", "set", "pack"}
    /\ nsets < MaxSets
    /\ \E i \in 1..Len(payload_dict[m.message_id].field_names) :
         \E v \in FieldValues(m.message_id, i) :
           m' = SetAttr(m, payload_dict[m.message_id].field_names[i], v)
    /\ nsets' = nsets + 1
    /\ op' = "set"
    /\ UNCHANGED <<m_exc, d, d_exc, d_err, src>>
    /\ UNCHANGED parser_vars
    /\ UNCHANGED pair_vars

\* m.request_id = r
SetRequestId ==
    /\ op \in {"init", "pack"}
    /\ m.message_id = PING1D_UNDEFINED
    /\ \E r \in RequestIds :
         /\ r # m.request_id
         /\ m' = [m EXCEPT !.request_id = r]
    /\ op' = "request"
    /\ UNCHANGED <<m_exc, d, d_exc, d_err, src, nsets>>
    /\ UNCHANGED parser_vars
    /\ UNCHANGED pair_vars

\* m takes the outcome r of m.pack_msg_data().
Packed(r) ==
    /\ m' = r.m
    /\ m_exc' = r.exc

\* m.pack_msg_data()
Pack ==
    /\ op \in {"construct", "set", "request"}
    /\ Packed(pack_msg_data(m))
    /\ op' = "pack"
    /\ UNCHANGED <<d, d_exc, d_err, src, nsets>>
    /\ UNCHANGED parser_vars
    /\ UNCHANGED pair_vars

\* d takes the outcome r of PingMessage(msg_data=buffer).
Decoded(r, buffer) ==
    /\ d' = r.m
    /\ d_exc' = r.exc
    /\ d_err' = r.unpack_error
    /\ src' = buffer

\* d = PingMessage(msg_data=buffer), the decode of a buffer.
DecodeBuffer(buffer) == Decoded(PingMessage(PING1D_UNDEFINED, buffer), buffer)

\* Decode what m.pack_msg_data() just produced.
Decode ==
    /\ op = "pack"
    /\ m_exc = ""
    /\ DecodeBuffer(m.msg_data)
    /\ op' = "decode"
    /\ UNCHANGED <<m, m_exc, nsets>>
    /\ UNCHANGED parser_vars
    /\ UNCHANGED pair_vars

\* Decode a received buffer, as in "Ex receive".
DecodeFrame ==
    /\ op = "init"
    /\ \E s \in 1..Len(Segments) : DecodeBuffer(Segments[s])
    /\ op' = "decode_frame"
    /\ UNCHANGED <<m, m_exc, nsets>>
    /\ UNCHANGED parser_vars
    /\ UNCHANGED pair_vars

\* d takes the outcome r of d.pack_msg_data().
Repacked(r) ==
    /\ d' = r.m
    /\ d_exc' = r.exc

\* d.pack_msg_data(), on a message that was just decoded.
PackDecoded ==
    /\ op \in {"decode", "decode_frame"}
    /\ d_exc = ""
    /\ Repacked(pack_msg_data(d))
    /\ op' = "repack"
    /\ UNCHANGED <<m, m_exc, d_err, src, nsets>>
    /\ UNCHANGED parser_vars
    /\ UNCHANGED pair_vars

CodecNext ==
    \/ Construct
    \/ SetFields
    \/ SetField
    \/ SetRequestId
    \/ Pack
    \/ Decode
    \/ DecodeFrame
    \/ PackDecoded

\* Messages built, encoded and decoded by a caller.
CodecSpec == Init /\ [][CodecNext]_vars


(***************************************************************************)
(* Two PingParser instances, each fed its own stream, the parse_byte calls *)
(* on the two interleaved in any order.                                    *)
(***************************************************************************)
\* Segments a stream of an instance is made of.
PairSegments ==
    { test_voltage_5_buf,
      test_nack_buf,
      WireFrame(PING1D_VOLTAGE_5, 1, 2, <<9, 9>>, 1),
      WireFrame(4, 0, 0, <<>>, 0),
      <<start_1>> }

\* Segments fed to each instance.
MaxPairSegs == 1

\* The bytes of a run of segments.
RECURSIVE StreamBytes(_)
StreamBytes(segs) ==
    IF segs = <<>> THEN <<>> ELSE Head(segs) \o StreamBytes(Tail(segs))

\* What the caller of parse_byte gets: the value returned, or the exception.
Outcome(r) == IF r.exc # "" THEN r.exc ELSE r.ret

\* The effect of a call on instance i were buf an attribute of the class, one
\* bytearray for all instances.
PairCalledSharedBuf(i, r, msg_byte) ==
    /\ parsers' = [j \in Instances |->
                     IF j = i THEN r.self ELSE [parsers[j] EXCEPT !.buf = r.self.buf]]
    /\ returned' = [returned EXCEPT ![i] = Append(@, Outcome(r))]
    /\ fed' = [fed EXCEPT ![i] = Append(@, msg_byte)]

\* The effect of a call parse_byte(msg_byte) with outcome r made on instance
\* i: every attribute parse_byte assigns is an attribute
\* of self, and the bytearray it appends to was made by that instance.
PairCalled(i, r, msg_byte) ==
    /\ parsers' = [parsers EXCEPT ![i] = r.self]
    /\ returned' = [returned EXCEPT ![i] = Append(@, Outcome(r))]
    /\ fed' = [fed EXCEPT ![i] = Append(@, msg_byte)]

\* One call parsers[i].parse_byte(msg_byte).
PairFeed(i, msg_byte) == PairCalled(i, parse_byte(parsers[i], msg_byte), msg_byte)

\* parse_byte on the next byte of the segment under way of one instance.
PairParseByte ==
    /\ \E i \in Instances :
         /\ Len(fed[i]) < Len(StreamBytes(streams[i]))
         /\ PairFeed(i, StreamBytes(streams[i])[Len(fed[i]) + 1])
    /\ UNCHANGED streams
    /\ UNCHANGED parser_vars
    /\ UNCHANGED codec_vars

\* parse_byte on the first byte of a further segment of one instance.
PairParseFirstByte ==
    /\ \E i \in Instances :
         /\ Len(fed[i]) = Len(StreamBytes(streams[i]))
         /\ Len(streams[i]) < MaxPairSegs
         /\ \E s \in PairSegments :
              /\ streams' = [streams EXCEPT ![i] = Append(@, s)]
              /\ PairFeed(i, s[1])
    /\ UNCHANGED parser_vars
    /\ UNCHANGED codec_vars

PairNext == PairParseByte \/ PairParseFirstByte

\* Two PingParser instances fed in any interleaving.
PairSpec == Init /\ [][PairNext]_vars
(***************************************************************************)
(* Properties of the streaming parser.                                     *)
(***************************************************************************)
\* Header fields of the frame held in a buffer.
FrameLength(f) == le_int(SubSeq(f, 3, 4))

FrameId(f) == le_int(SubSeq(f, 5, 6))

\* The two bytes after the declared payload, as a little-endian u16.
WireChecksum(f) ==
    le_int(Slice(f, headerLength + FrameLength(f),
                 headerLength + FrameLength(f) + checksumLength))

\* The wire checksum equals the checksum computed over the header and
\* payload bytes.
FramePasses(f) ==
    WireChecksum(f) = SumBytes(Slice(f, 0, headerLength + FrameLength(f)))

\* A complete valid frame of a registered message type, by the wire format:
\* magic, a schema entry, a payload length the schema allows, the exact
\* length, and the 16-bit sum.
ValidFrame(f) ==
    /\ Len(f) >= headerLength + checksumLength
    /\ f[1] = start_1 /\ f[2] = start_2
    /\ Len(f) = headerLength + FrameLength(f) + checksumLength
    /\ Known(FrameId(f))
    /\ IF FrameId(f) \in variable_msgs \/ FrameId(f) \in asciiMsgs
       THEN FrameLength(f) >= payload_dict[FrameId(f)].payload_length
       ELSE FrameLength(f) = payload_dict[FrameId(f)].payload_length
    /\ WireChecksum(f) = SumBytes(Slice(f, 0, headerLength + FrameLength(f))) % 65536

\* The last call was made in WAIT_CHECKSUM_H: it completed a frame.
Completed == nseg >= 1 /\ pre = WAIT_CHECKSUM_H

\* C1: every parse_byte call made in WAIT_CHECKSUM_H ends with the parser in
\* WAIT_START and both accumulators at 0, whatever the frame's checksum and
\* message id, so the parser never gets stuck.
C1_ResetAfterFrame ==
    Completed =>
        /\ p.state = WAIT_START
        /\ p.payload_length = 0
        /\ p.message_id = 0

\* C2: parse_byte returns NEW_MESSAGE exactly when the byte was consumed in
\* WAIT_CHECKSUM_H and the wire checksum of the frame in the buffer equals the
\* checksum computed over its header and payload bytes.
C2_NewMessageIffChecksum ==
    nseg >= 1 => (ret = NEW_MESSAGE <=> (Completed /\ FramePasses(p.buf)))

\* Values parse_byte returns for a byte that does not complete a frame.
IntermediateResults == WAIT_START..WAIT_CHECKSUM_H

C4_RxMsgIsLastNewMessage == p.rx_msg = last_new

\* C5: parsed + errors counts the calls made in WAIT_CHECKSUM_H; a call moves
\* at most one counter, by +1, and only when it completes a frame; no counter
\* decreases.
C5_CounterAccounting ==
    /\ [](p.parsed + p.errors = nframes)
    /\ [][ /\ p'.parsed \in {p.parsed, p.parsed + 1}
           /\ p'.errors \in {p.errors, p.errors + 1}
           /\ ~(p'.parsed # p.parsed /\ p'.errors # p.errors)
           /\ (p.state # WAIT_CHECKSUM_H =>
                 p'.parsed = p.parsed /\ p'.errors = p.errors) ]_vars

\* A single stray byte was fed to a parser in WAIT_START, then all the bytes
\* of a complete valid frame.
StrayThenFrame ==
    /\ nseg >= 2
    /\ SegLen(prev_seg) = 1
    /\ prev_state0 = WAIT_START
    /\ ValidFrame(Segments[seg])
    /\ pos = SegLen(seg)

\* C6 as claimed: whatever the stray byte, the frame's last byte returns
\* NEW_MESSAGE and rx_msg is the decode of the frame.
C6_AnyStrayByte ==
    StrayThenFrame =>
        /\ ret = NEW_MESSAGE
        /\ p.rx_msg = PingMessage(PING1D_UNDEFINED, Segments[seg]).m

\* C6 amended: a stray byte other than 'B' does not cost the frame.  On the
\* frame's last byte rx_msg is the decode of the frame, and NEW_MESSAGE is
\* returned exactly when that decode passes verify_checksum.
C6_StrayByteResync ==
    (StrayThenFrame /\ Segments[prev_seg] # <<start_1>>) =>
        LET direct == PingMessage(PING1D_UNDEFINED, Segments[seg])
        IN  /\ exc = ""
            /\ p.buf = Segments[seg]
            /\ p.rx_msg = direct.m
            /\ ret = NEW_MESSAGE <=> verify_checksum(direct.m)
            /\ p.state = WAIT_START

\* C6 witness: the stray byte 0 went before test_voltage_5_buf, which then
\* parsed.
C6_Witness ==
    /\ StrayThenFrame
    /\ Segments[prev_seg] = <<0>>
    /\ Segments[seg] = test_voltage_5_buf
    /\ ret = NEW_MESSAGE
    /\ p.rx_msg.attrs["voltage_5"] = 257

\* The header fields, payload fields and checksum of a decoded message.
Fields(msg) ==
    [payload_length |-> msg.payload_length, message_id |-> msg.message_id,
     src_device_id |-> msg.src_device_id, dst_device_id |-> msg.dst_device_id,
     attrs |-> msg.attrs, checksum |-> msg.checksum]

\* C7: the bytes of a complete valid frame, fed one at a time to a parser in
\* WAIT_START, return NEW_MESSAGE on the last byte and on no other, and leave in
\* rx_msg what PingMessage(msg_data=frame) decodes.
C7_IncrementalEquivalence ==
    (nseg >= 1 /\ state0 = WAIT_START /\ ValidFrame(Segments[seg])) =>
        /\ ret = NEW_MESSAGE <=> pos = SegLen(seg)
        /\ pos = SegLen(seg) =>
             /\ p.rx_msg # NoneMsg
             /\ Fields(p.rx_msg) =
                  Fields(PingMessage(PING1D_UNDEFINED, Segments[seg]).m)

(***************************************************************************)
(* Properties of the codec.                                                *)
(***************************************************************************)
\* Sum of the header and payload bytes of a message's buffer.
BodySum(msg) == SumBytes(Slice(msg.msg_data, 0, headerLength + msg.payload_length))

\* The bytes of the buffer after the header and payload.
BufferTail(msg) ==
    Slice(msg.msg_data, headerLength + msg.payload_length, Len(msg.msg_data))

\* C8: the checksum pack_msg_data appends is the sum of the header and payload
\* bytes modulo 65536, and verify_checksum is True exactly when the stored
\* 16-bit checksum equals the low 16 bits of that sum, also for a sum of 65536
\* or more.
C8_ChecksumCorrect ==
    /\ (op = "pack" /\ m_exc = "") =>
          BufferTail(m) = le_bytes(BodySum(m) % 65536, checksumLength)
    /\ (op \in {"decode", "decode_frame"} /\ d_exc = "") =>
          (verify_checksum(d) <=> d.checksum = BodySum(d) % 65536)

\* Every payload field of the message's type has been assigned.
FullyAssigned(msg) ==
    \A i \in 1..Len(payload_dict[msg.message_id].field_names) :
       payload_dict[msg.message_id].field_names[i] \in DOMAIN msg.attrs

\* C9: for every registered type and every valid assignment of its fields
\* (empty and non-empty trailing field included) pack_msg_data succeeds, and
\* decoding its output gives the same message id, payload_length and field
\* values.
C9_RoundTrip ==
    /\ (op = "pack" /\ m.request_id = None /\ FullyAssigned(m)) => m_exc = ""
    /\ (op = "decode" /\ m.request_id = None) =>
          /\ d_exc = ""
          /\ d.message_id = m.message_id
          /\ d.payload_length = m.payload_length
          /\ \A i \in 1..Len(payload_dict[m.message_id].field_names) :
               LET name == payload_dict[m.message_id].field_names[i]
               IN  /\ name \in DOMAIN d.attrs
                   /\ d.attrs[name] = m.attrs[name]

\* A valid frame of a variable-length type whose payload is exactly the
\* static payload of the type.
ZeroExtraFrame(f) ==
    /\ ValidFrame(f)
    /\ IsVariable(FrameId(f))
    /\ FrameLength(f) = payload_dict[FrameId(f)].payload_length

\* C10: decoding a variable-length frame with zero extra bytes reports no
\* decode error, fills every fixed field from the payload, and sets the
\* trailing field to the empty byte sequence.
C10_ZeroExtraDecodes ==
    (op = "decode_frame" /\ ZeroExtraFrame(src)) =>
        LET entry == payload_dict[FrameId(src)]
            fixed == unpack_items(entry.format,
                         Slice(src, headerLength, headerLength + FrameLength(src)))
            trailing == entry.field_names[Len(entry.field_names)]
        IN  /\ d_exc = ""
            /\ ~d_err
            /\ \A i \in 1..Len(entry.format) :
                 /\ entry.field_names[i] \in DOMAIN d.attrs
                 /\ d.attrs[entry.field_names[i]] = fixed[i]
            /\ trailing \in DOMAIN d.attrs
            /\ d.attrs[trailing] = <<>>


\* C11: packing a message that was just decoded from a valid frame, with no
\* field assigned and no request id set, succeeds and leaves in msg_data the
\* bytes it was decoded from, for fixed-length and variable-length types.
C11_RepackReproducesBuffer ==
    (op = "repack" /\ ValidFrame(src)) =>
        /\ d_exc = ""
        /\ d.msg_data = src

\* The payload fields a decode has set: every attribute but the two start
\* bytes, which are header fields.
PayloadAttrs(msg) == DOMAIN msg.attrs \ {"start_1", "start_2"}

\* C12: a well-framed buffer whose message id has no payload_dict entry
\* decodes, without raising, to a result that carries the header fields and
\* no payload field; and the parse_byte call that completes such a frame does
\* not raise and leaves the parser in WAIT_START, ready for the next frame.
C12_UnknownIdRecoverable ==
    (Completed /\ ~Known(FrameId(p.buf))) =>
        LET r == PingMessage(PING1D_UNDEFINED, p.buf)
        IN  /\ r.exc = ""
            /\ r.m.payload_length = FrameLength(p.buf)
            /\ r.m.message_id = FrameId(p.buf)
            /\ r.m.src_device_id = p.buf[7]
            /\ r.m.dst_device_id = p.buf[8]
            /\ PayloadAttrs(r.m) = {}
            /\ exc = ""
            /\ p.state = WAIT_START

\* The buffer holds a frame of a fixed-length type whose declared payload
\* length is not the byte width of the type's fields.
FixedLengthMismatch(f) ==
    /\ Known(FrameId(f))
    /\ ~IsVariable(FrameId(f))
    /\ FrameLength(f) # payload_dict[FrameId(f)].payload_length

\* C13: decoding a frame of a fixed-length type whose payload_length differs
\* from the width of the type's fields raises an error to the caller, and the
\* parse_byte call that completes such a frame never returns NEW_MESSAGE.
C13_LengthMismatchFails ==
    (Completed /\ FixedLengthMismatch(p.buf)) =>
        /\ PingMessage(PING1D_UNDEFINED, p.buf).exc # ""
        /\ ret # NEW_MESSAGE

\* C14: test_voltage_5_buf decodes to message id 1202 (voltage_5) with
\* payload_length 2, src_device_id 5, dst_device_id 6, voltage_5 = 257 and
\* checksum 0x0159 = 345, and verify_checksum is True.
C14_Voltage5Frame ==
    (op = "decode_frame" /\ src = test_voltage_5_buf) =>
        /\ d_exc = ""
        /\ ~d_err
        /\ d.message_id = PING1D_VOLTAGE_5
        /\ d.message_id = 1202
        /\ d.name = "voltage_5"
        /\ d.payload_length = 2
        /\ d.src_device_id = 5
        /\ d.dst_device_id = 6
        /\ PayloadAttrs(d) = {"voltage_5"}
        /\ d.attrs["voltage_5"] = 257
        /\ d.checksum = 345
        /\ verify_checksum(d)

\* C14 witness: test_voltage_5_buf was decoded and voltage_5 was set.
C14_Witness ==
    /\ op = "decode_frame"
    /\ src = test_voltage_5_buf
    /\ d_exc = ""
    /\ "voltage_5" \in DOMAIN d.attrs

\* C15: test_nack_buf, a frame of the variable-length type of id 3 with
\* payload_length 6, decodes with the trailing field equal to the six bytes
\* 68 65 6c 6c 6f 00 and checksum 0x02BC = 700, and verify_checksum is True.
C15_AsciiTextFrame ==
    (op = "decode_frame" /\ src = test_nack_buf) =>
        /\ d_exc = ""
        /\ ~d_err
        /\ d.message_id = 3
        /\ d.message_id \in asciiMsgs
        /\ d.payload_length = 6
        /\ PayloadAttrs(d) = {"ascii_message"}
        /\ d.attrs["ascii_message"] = <<104, 101, 108, 108, 111, 0>>
        /\ d.checksum = 700
        /\ verify_checksum(d)

\* C15 witness: test_nack_buf was decoded and its trailing field holds six
\* bytes.
C15_Witness ==
    /\ op = "decode_frame"
    /\ src = test_nack_buf
    /\ d_exc = ""
    /\ "ascii_message" \in DOMAIN d.attrs
    /\ Len(d.attrs["ascii_message"]) = 6

\* The outcome of the last of the calls parse_byte(bytes[1]), ...,
\* parse_byte(bytes[n]) made on a parser, given the outcome r of the calls
\* before; a call that raises ends the run.
RECURSIVE FeedBytes(_, _, _)
FeedBytes(r, bytes, i) ==
    IF i > Len(bytes) \/ r.exc # ""
    THEN r
    ELSE FeedBytes(parse_byte(r.self, bytes[i]), bytes, i + 1)

\* All of bytes fed to a new PingParser.
FedToParser(bytes) ==
    FeedBytes([exc |-> "", self |-> PingParser, ret |-> None], bytes, 1)

\* C16: packing a default message (id 0, no payload) whose request_id is r
\* gives a 10-byte frame with r in the header's message_id field and
\* payload_length 0; the message's own message_id stays 0; the checksum is the
\* sum of the 8 emitted header bytes, so a parser fed the frame returns
\* NEW_MESSAGE on its last byte.  The same holds after request_id is changed
\* and the message packed again.
C16_RequestIdOverride ==
    (op = "pack" /\ m.request_id # None) =>
        /\ m_exc = ""
        /\ m.message_id = PING1D_UNDEFINED
        /\ Len(m.msg_data) = headerLength + checksumLength
        /\ FrameId(m.msg_data) = m.request_id
        /\ FrameLength(m.msg_data) = 0
        /\ m.payload_length = 0
        /\ WireChecksum(m.msg_data) = SumBytes(SubSeq(m.msg_data, 1, headerLength))
        /\ m.msg_data = WireFrame(m.request_id, 0, 0, <<>>, 0)
        /\ LET r == FedToParser(m.msg_data)
           IN  /\ r.exc = ""
               /\ r.ret = NEW_MESSAGE
               /\ r.self.parsed = 1
               /\ r.self.rx_msg.message_id = m.request_id
               /\ verify_checksum(r.self.rx_msg)

\* C16 witness: a default message was packed as a request for voltage_5.
C16_Witness ==
    /\ op = "pack"
    /\ m_exc = ""
    /\ m.message_id = PING1D_UNDEFINED
    /\ m.request_id = PING1D_VOLTAGE_5
    /\ m.msg_data = <<66, 82, 0, 0, 178, 4, 0, 0, 74, 1>>

\* A PingParser fed bytes[i..] on its own: the parser after the last call and
\* what each call returned or raised.
RECURSIVE AloneFrom(_, _, _, _)
AloneFrom(self, rets, bytes, i) ==
    IF i > Len(bytes)
    THEN [self |-> self, returned |-> rets]
    ELSE LET r == parse_byte(self, bytes[i])
         IN  AloneFrom(r.self, Append(rets, Outcome(r)), bytes, i + 1)

\* A new PingParser fed bytes on its own.
Alone(bytes) == AloneFrom(PingParser, <<>>, bytes, 1)

C18_PayloadConsumption ==
    /\ [](p.state = WAIT_PAYLOAD =>
            /\ 1 <= p.payload_length
            /\ p.payload_length <= FrameLength(p.buf)
            /\ Len(p.buf) = headerLength + FrameLength(p.buf) - p.payload_length)
    /\ [][ /\ p.state = WAIT_DST_ID =>
                /\ Len(p'.buf) = headerLength
                /\ p'.payload_length = FrameLength(p'.buf)
                /\ p'.state = IF FrameLength(p'.buf) = 0
                              THEN WAIT_CHECKSUM_L ELSE WAIT_PAYLOAD
           /\ p.state = WAIT_PAYLOAD =>
                /\ p'.payload_length = p.payload_length - 1
                /\ p'.state = IF Len(p'.buf) = headerLength + FrameLength(p.buf)
                              THEN WAIT_CHECKSUM_L ELSE WAIT_PAYLOAD
           /\ p'.state = WAIT_PAYLOAD => p.state \in {WAIT_DST_ID, WAIT_PAYLOAD} ]_vars

\* C18 witness: the parser waits for the last of six declared payload bytes.
C18_Witness ==
    /\ p.state = WAIT_PAYLOAD
    /\ FrameLength(p.buf) = 6
    /\ p.payload_length = 1
    /\ Len(p.buf) = headerLength + 5

\* C18 witness of the other case: a header declaring no payload was just
\* completed and the parser went past WAIT_PAYLOAD.
C18_WitnessEmptyPayload ==
    /\ pre = WAIT_DST_ID
    /\ p.state = WAIT_CHECKSUM_L
    /\ Len(p.buf) = headerLength
    /\ FrameLength(p.buf) = 0

\* C19: a non-empty buf starts with 'B', followed by 'R' when it holds two
\* bytes or more; in the header states WAIT_HEADER..WAIT_DST_ID its length is
\* state - 1; and its length never exceeds the header, the payload its own
\* header declares, and the checksum.
C19_OneFrameInBuffer ==
    /\ Len(p.buf) >= 1 => p.buf[1] = start_1
    /\ Len(p.buf) >= 2 => p.buf[2] = start_2
    /\ p.state \in WAIT_HEADER..WAIT_DST_ID => Len(p.buf) = p.state - 1
    /\ Len(p.buf) >= headerLength =>
         Len(p.buf) <= headerLength + FrameLength(p.buf) + checksumLength

\* C20: a parse_byte call that completes no frame (one made in a state other
\* than WAIT_CHECKSUM_H, or one that raises) leaves rx_msg as it was: the same
\* header and payload field values and the same bytes in msg_data, also while
\* the parser appends the bytes of the next frame to its own buffer.
C20_RxMsgKeptBetweenFrames ==
    [][ (p.state # WAIT_CHECKSUM_H \/ exc' # "") => p'.rx_msg = p.rx_msg ]_vars

\* C20 witness: with a message in rx_msg, the parser has taken the header of
\* the next frame into its buffer, and rx_msg still holds the bytes of the
\* frame it was decoded from.
C20_Witness ==
    /\ p.rx_msg # NoneMsg
    /\ p.state = WAIT_PAYLOAD
    /\ Len(p.buf) = headerLength
    /\ p.rx_msg.msg_data = test_voltage_5_buf
    /\ p.rx_msg.attrs["voltage_5"] = 257

\* The byte passed to the last parse_byte call.
LastByte == Segments[seg][pos]

\* C21: a byte other than 'R' consumed in WAIT_HEADER, 'B' included, sends the
\* parser to WAIT_START without being taken into the buffer and without an
\* error being counted; a byte other than 'B' consumed in WAIT_START leaves
\* the parser in WAIT_START with an empty buffer; and the search goes on with
\* the next byte, a 'B' consumed in WAIT_START starting a frame.
C21_NoBacktracking ==
    [][ /\ (p.state = WAIT_HEADER /\ LastByte' # start_2) =>
              /\ p'.state = WAIT_START
              /\ p'.buf = p.buf
              /\ p'.errors = p.errors
              /\ p'.parsed = p.parsed
              /\ ret' = WAIT_START
        /\ (p.state = WAIT_START /\ LastByte' # start_1) =>
              /\ p'.state = WAIT_START
              /\ p'.buf = <<>>
              /\ ret' = WAIT_START
        /\ (p.state = WAIT_START /\ LastByte' = start_1) =>
              /\ p'.state = WAIT_HEADER
              /\ p'.buf = <<start_1>> ]_vars

\* C21 witness: a 'B' was consumed in WAIT_HEADER and the parser went to
\* WAIT_START, the buffer still holding the first 'B' only.
C21_Witness ==
    /\ nseg >= 2
    /\ pre = WAIT_HEADER
    /\ LastByte = start_1
    /\ p.state = WAIT_START
    /\ p.buf = <<start_1>>
    /\ p.errors = 0

\* The payload length of a message as its fields stand: the static length
\* of its type, plus the length of the trailing field for a variable-length
\* type.
CurrentPayloadLength(msg) ==
    LET entry == payload_dict[msg.message_id]
    IN  IF IsVariable(msg.message_id)
        THEN entry.payload_length
               + Len(msg.attrs[entry.field_names[Len(entry.field_names)]])
        ELSE entry.payload_length

\* C22: after any run of field assignments and pack_msg_data calls on a
\* message of a registered type with all its fields assigned, msg_data as the
\* latest pack_msg_data call left it has the current payload length in its
\* header, is 8 + payload_length + 2 bytes long, and ends with the 16-bit sum
\* of exactly the header and payload bytes before it.
C22_NoStaleLengthOrChecksum ==
    (op = "pack" /\ m.request_id = None /\ FullyAssigned(m)) =>
        /\ Len(m.msg_data) = headerLength + CurrentPayloadLength(m) + checksumLength
        /\ FrameLength(m.msg_data) = CurrentPayloadLength(m)
        /\ WireChecksum(m.msg_data) =
             SumBytes(Slice(m.msg_data, 0, headerLength + CurrentPayloadLength(m))) % 65536

\* The last byte of the n-th hand-written buffer of __main__ was just fed,
\* the buffers before it having been fed in order to the new parser.
MainBufferDone(n) ==
    /\ main_order
    /\ nseg = n
    /\ pos = SegLen(seg)

\* C23: test_voltage_5_buf, test_nack_buf and test_profile_buf, fed in that
\* order to a new parser, each return NEW_MESSAGE on their last byte, with
\* parsed counting them and errors staying 0; after the third, rx_msg is the
\* profile message, id 1300 and payload_length 30, whose profile_data is the
\* four bytes 01 02 63 64.
C23_MainBuffersParse ==
    /\ \A n \in 1..Len(MainBuffers) :
         MainBufferDone(n) =>
             /\ ret = NEW_MESSAGE
             /\ p.parsed = n
             /\ p.errors = 0
    /\ MainBufferDone(Len(MainBuffers)) =>
         /\ p.rx_msg # NoneMsg
         /\ p.rx_msg.message_id = PING1D_PROFILE
         /\ p.rx_msg.message_id = 1300
         /\ p.rx_msg.payload_length = 30
         /\ "profile_data" \in DOMAIN p.rx_msg.attrs
         /\ p.rx_msg.attrs["profile_data"] = <<1, 2, 99, 100>>
====
